---- MODULE Spec2Model ----
(***************************************************************************)
(* Model of the e-libro catalog updater: the record parser (libs/Book.js), *)
(* the record-to-storage mapper and the download/extract/upsert run        *)
(* (the command-line entry point), and the book collection (bookModel).    *)
(*                                                                         *)
(* Text the code inspects character by character (titles, rights           *)
(* statements, directory names, element text) is a sequence of             *)
(* one-character strings; a URL is the sequence of its parts.              *)
(***************************************************************************)
EXTENDS Integers, Sequences, FiniteSets, TLC

(***************************************************************************)
(* Bounds of the model                                                     *)
(***************************************************************************)
MaxTitleLen == 5
MaxRightsPieces == 2
MaxFiles == 3
MaxDirs == 3
MaxRuns == 2

(***************************************************************************)
(* JavaScript values                                                       *)
(***************************************************************************)
Undefined == [t |-> "undefined"]
Null == [t |-> "null"]
NaN == [t |-> "NaN"]
Str(s) == [t |-> "string", v |-> s]
Num(n) == [t |-> "number", v |-> n]
Bool(b) == [t |-> "boolean", v |-> b]
Arr(a) == [t |-> "array", v |-> a]

\* obj.key : a missing property reads as undefined
GetProp(obj, key) == IF key \in DOMAIN obj THEN obj[key] ELSE Undefined

(***************************************************************************)
(* Character classes                                                       *)
(***************************************************************************)
Digits == <<"0", "1", "2", "3", "4", "5", "6", "7", "8", "9">>

IsDigit(c) == \E i \in 1..10 : Digits[i] = c

DigitVal(c) == (CHOOSE i \in 1..10 : Digits[i] = c) - 1

IsWhiteSpace(c) == c \in {" ", "\t", "\n", "\r"}

RECURSIVE DigitsEnd(_, _)
\* index of the first character at or after i that is not a decimal digit
DigitsEnd(s, i) ==
  IF i <= Len(s) /\ IsDigit(s[i]) THEN DigitsEnd(s, i + 1) ELSE i

RECURSIVE DecValue(_, _, _)
\* value of the decimal digits s[i..j-1]
DecValue(s, i, j) ==
  IF j <= i THEN 0 ELSE DecValue(s, i, j - 1) * 10 + DigitVal(s[j - 1])

RECURSIVE Pow10(_)
Pow10(n) == IF n <= 0 THEN 1 ELSE 10 * Pow10(n - 1)

RECURSIVE TrimStart(_)
TrimStart(s) ==
  IF Len(s) > 0 /\ IsWhiteSpace(s[1]) THEN TrimStart(Tail(s)) ELSE s

RECURSIVE TrimEnd(_)
TrimEnd(s) ==
  IF Len(s) > 0 /\ IsWhiteSpace(s[Len(s)])
  THEN TrimEnd(SubSeq(s, 1, Len(s) - 1)) ELSE s

(***************************************************************************)
(* parseInt(string, 10)                                                    *)
(***************************************************************************)
parseInt(string) ==
  LET S == TrimStart(string)
      neg == Len(S) > 0 /\ S[1] = "-"
      U == IF Len(S) > 0 /\ S[1] \in {"+", "-"} THEN Tail(S) ELSE S
      end == DigitsEnd(U, 1)
  IN IF end = 1 THEN NaN
     ELSE Num(IF neg THEN 0 - DecValue(U, 1, end) ELSE DecValue(U, 1, end))

(***************************************************************************)
(* Number(string): the numeric value of a string, as a decimal             *)
(* mant * 10^exp, or NaN, or an infinity.                                  *)
(***************************************************************************)
Infinity == <<"I", "n", "f", "i", "n", "i", "t", "y">>

HexDigits == <<"0", "1", "2", "3", "4", "5", "6", "7", "8", "9",
               "a", "b", "c", "d", "e", "f">>
HexUpper == <<"0", "1", "2", "3", "4", "5", "6", "7", "8", "9",
              "A", "B", "C", "D", "E", "F">>

IsRadixDigit(c, radix) ==
  \E i \in 1..radix : HexDigits[i] = c \/ HexUpper[i] = c

RadixDigitVal(c) ==
  (CHOOSE i \in 1..16 : HexDigits[i] = c \/ HexUpper[i] = c) - 1

RECURSIVE RadixValue(_, _)
RadixValue(s, radix) ==
  IF Len(s) = 0 THEN 0
  ELSE RadixValue(SubSeq(s, 1, Len(s) - 1), radix) * radix
       + RadixDigitVal(s[Len(s)])

Finite(neg, mant, exp) ==
  [k |-> "finite", neg |-> neg, mant |-> mant, exp |-> exp]

NotANumber == [k |-> "NaN", neg |-> FALSE, mant |-> 0, exp |-> 0]

Infinite(neg) == [k |-> "infinite", neg |-> neg, mant |-> 0, exp |-> 0]

RadixOf(c) ==
  IF c \in {"x", "X"} THEN 16
  ELSE IF c \in {"o", "O"} THEN 8
  ELSE IF c \in {"b", "B"} THEN 2 ELSE 0

\* 0x.., 0o.., 0b.. : no sign, at least one digit of the radix
NonDecimalIntegerLiteral(u) ==
  LET radix == IF Len(u) >= 2 /\ u[1] = "0" THEN RadixOf(u[2]) ELSE 0
      body == SubSeq(u, 3, Len(u))
  IN IF radix # 0 /\ Len(body) > 0
        /\ \A i \in 1..Len(body) : IsRadixDigit(body[i], radix)
     THEN Finite(FALSE, RadixValue(body, radix), 0)
     ELSE NotANumber

\* digits [. digits] [e [+-] digits]  |  . digits [e [+-] digits]  |  Infinity
StrDecimalLiteral(s) ==
  LET neg == Len(s) > 0 /\ s[1] = "-"
      u == IF Len(s) > 0 /\ s[1] \in {"+", "-"} THEN Tail(s) ELSE s
      n == Len(u)
      a == DigitsEnd(u, 1)
      hasDot == a <= n /\ u[a] = "."
      b == IF hasDot THEN DigitsEnd(u, a + 1) ELSE a
      fracLen == IF hasDot THEN b - (a + 1) ELSE 0
      hasExp == b <= n /\ u[b] \in {"e", "E"}
      expNeg == hasExp /\ b + 1 <= n /\ u[b + 1] = "-"
      c == IF hasExp
           THEN (IF b + 1 <= n /\ u[b + 1] \in {"+", "-"} THEN b + 2 ELSE b + 1)
           ELSE b
      d == IF hasExp THEN DigitsEnd(u, c) ELSE b
      expVal == IF hasExp THEN DecValue(u, c, d) ELSE 0
      mant == DecValue(u, 1, a) * Pow10(fracLen)
              + (IF hasDot THEN DecValue(u, a + 1, b) ELSE 0)
      valid == /\ (a - 1) + fracLen > 0
               /\ hasExp => d > c
               /\ d = n + 1
  IN IF u = Infinity THEN Infinite(neg)
     ELSE IF valid
          THEN Finite(neg, mant,
                (IF expNeg THEN 0 - expVal ELSE expVal) - fracLen)
          ELSE NotANumber

Number(string) ==
  LET s == TrimEnd(TrimStart(string))
  IN IF Len(s) = 0 THEN Finite(FALSE, 0, 0)
     ELSE IF NonDecimalIntegerLiteral(s).k # "NaN"
          THEN NonDecimalIntegerLiteral(s)
          ELSE StrDecimalLiteral(s)

isNaN(number) == number.k = "NaN"

(***************************************************************************)
(* Text helpers                                                            *)
(***************************************************************************)
\* the characters of the model's texts, in UTF-16 code unit order
CodeUnits == <<"\t", "\n", "\r", " ", "-", ".", "0", "1", "2", "3", "4", "5",
               "6", "7", "8", "9", ":", ";",
               "A", "B", "C", "D", "E", "F", "G", "H", "I", "J", "K", "L", "M",
               "N", "O", "P", "Q", "R", "S", "T", "U", "V", "W", "X", "Y", "Z",
               "a", "b", "c", "d", "e", "f", "g", "h", "i", "j", "k", "l", "m",
               "n", "o", "p", "q", "r", "s", "t", "u", "v", "w", "x", "y", "z">>

CodeUnit(c) == CHOOSE i \in 1..Len(CodeUnits) : CodeUnits[i] = c

RECURSIVE StringLess(_, _)
\* a < b on strings: the first differing code unit decides
StringLess(a, b) ==
  IF Len(b) = 0 THEN FALSE
  ELSE IF Len(a) = 0 THEN TRUE
  ELSE IF a[1] = b[1] THEN StringLess(Tail(a), Tail(b))
  ELSE CodeUnit(a[1]) < CodeUnit(b[1])

\* mutant of startsWith: the search string is accepted at any position
startsWith_anywhere(string, searchString) ==
  \E i \in 1..(Len(string) + 1) :
    /\ i + Len(searchString) - 1 <= Len(string)
    /\ SubSeq(string, i, i + Len(searchString) - 1) = searchString

\* String.prototype.startsWith(searchString)
startsWith(string, searchString) ==
  /\ Len(searchString) <= Len(string)
  /\ SubSeq(string, 1, Len(searchString)) = searchString

\* String.prototype.includes(part), on the parts of a URL
includes(url, part) == \E i \in 1..Len(url) : url[i] = part

(***************************************************************************)
(* fixSubtitles                                                            *)
(***************************************************************************)
IsBlank(c) == c \in {" ", "\t"}

IsLineBreak(c) == c \in {"\n", "\r"}

RECURSIVE SkipBlank(_, _)
SkipBlank(s, i) ==
  IF i <= Len(s) /\ IsBlank(s[i]) THEN SkipBlank(s, i + 1) ELSE i

RECURSIVE SkipLineBreak(_, _)
SkipLineBreak(s, i) ==
  IF i <= Len(s) /\ IsLineBreak(s[i]) THEN SkipLineBreak(s, i + 1) ELSE i

\* end of the match of LINE_BREAK_PATTERN that starts at i, or 0 if none
LINE_BREAK_PATTERN(s, i) ==
  LET j == SkipBlank(s, i)
  IN IF j <= Len(s) /\ IsLineBreak(s[j])
     THEN SkipBlank(s, SkipLineBreak(s, j))
     ELSE 0

RECURSIVE replace(_, _, _)
\* string.replace(LINE_BREAK_PATTERN, replacement): the pattern carries the
\* g flag, so every match from i on is replaced
replace(s, i, replacement) ==
  IF i > Len(s) THEN <<>>
  ELSE IF LINE_BREAK_PATTERN(s, i) # 0
       THEN replacement \o replace(s, LINE_BREAK_PATTERN(s, i), replacement)
       ELSE <<s[i]>> \o replace(s, i + 1, replacement)

fixSubtitles(title) ==
  LET newTitle == replace(title, 1, <<":", " ">>)
  IN replace(newTitle, 1, <<";", " ">>)

(***************************************************************************)
(* The record document (the DOM of one pg<id>.rdf file)                    *)
(*   an element that may be absent: [present, textContent]                 *)
(***************************************************************************)
NoElement == [present |-> FALSE, textContent |-> <<>>]

Element(text) == [present |-> TRUE, textContent |-> text]

\* the outcome of a call: not made yet, thrown, or returned with a value
Pending == [outcome |-> "pending"]

Thrown == [outcome |-> "throw"]

Returned(value) == [outcome |-> "return", value |-> value]

RECURSIVE Pushed(_)
\* the array a forEach builds, given what it pushes for each element in turn
Pushed(pushes) ==
  IF Len(pushes) = 0 THEN <<>>
  ELSE pushes[1] \o Pushed(Tail(pushes))

\* creators and translators: an entry without a name is skipped
getPerson(creator) ==
  IF ~creator.name.present THEN <<>>
  ELSE << [name |-> Str(creator.name.textContent),
           birth |-> IF creator.birthdate.present
                     THEN parseInt(creator.birthdate.textContent) ELSE Null,
           death |-> IF creator.deathdate.present
                     THEN parseInt(creator.deathdate.textContent) ELSE Null] >>

\* subjects: kept when dcam:memberOf names dc:LCSH; the value may be missing
LCSH == <<"d", "c", ":", "L", "C", "S", "H">>

getSubject(subject) ==
  IF ~subject.memberOf.present THEN <<>>
  ELSE IF subject.memberOf.resource = LCSH
       THEN << IF subject.value.present
               THEN Str(subject.value.textContent) ELSE Undefined >>
       ELSE <<>>

\* the default comparison of Array.prototype.sort: undefined goes last
SortLess(a, b) ==
  IF a.t = "undefined" THEN FALSE
  ELSE IF b.t = "undefined" THEN TRUE
  ELSE StringLess(a.v, b.v)

RECURSIVE Insert(_, _)
Insert(sorted, e) ==
  IF Len(sorted) = 0 THEN <<e>>
  ELSE IF SortLess(e, sorted[1]) THEN <<e>> \o sorted
  ELSE <<sorted[1]>> \o Insert(Tail(sorted), e)

RECURSIVE sort(_)
sort(array) ==
  IF Len(array) = 0 THEN <<>>
  ELSE Insert(sort(SubSeq(array, 1, Len(array) - 1)), array[Len(array)])

getBookshelf(bookshelf) ==
  IF bookshelf.value.present THEN <<Str(bookshelf.value.textContent)>> ELSE <<>>

PUBLIC_DOMAIN == <<"P", "u", "b", "l", "i", "c", " ", "d", "o", "m", "a", "i",
                   "n", " ", "i", "n", " ", "t", "h", "e", " ", "U", "S", "A",
                   ".">>

COPYRIGHTED == <<"C", "o", "p", "y", "r", "i", "g", "h", "t", "e", "d", ".">>

getCopyright(rights) ==
  IF startsWith(rights.textContent, PUBLIC_DOMAIN) THEN Bool(FALSE)
  ELSE IF startsWith(rights.textContent, COPYRIGHTED) THEN Bool(TRUE)
  ELSE Null

NOIMAGES == "noimages"

\* mutant of keepFormat: one entry per content type
keepFormat_dedup(formats, contentType) ==
  ~\E i \in 1..Len(formats) : formats[i].contentType = contentType

\* the condition under which a file with this content type is pushed
keepFormat(formats, contentType) ==
  \/ ~\E i \in 1..Len(formats) : formats[i].contentType = contentType
  \/ \E i \in 1..Len(formats) :
       /\ formats[i].contentType = contentType
       /\ includes(formats[i].url, NOIMAGES)

RECURSIVE getFormats(_, _)
\* the forEach over the pg:file elements, starting from the formats so far
getFormats(formats, files) ==
  IF Len(files) = 0 THEN formats
  ELSE LET file == files[1]
           contentType == file.format.value
       IN IF contentType.present
             /\ keepFormat(formats, contentType.textContent)
          THEN getFormats(Append(formats,
                                 [contentType |-> contentType.textContent,
                                  url |-> file.about]),
                          Tail(files))
          ELSE getFormats(formats, Tail(files))

getLanguage(language) == <<Str(language.value.textContent)>>

TEXT == <<"T", "e", "x", "t">>

\* the statements of getBook that dereference an element without a test
getBookThrows(xml) ==
  \/ ~xml.wellFormed
  \/ ~xml.ebook
  \/ ~xml.rights.present
  \/ \E i \in 1..Len(xml.files) : ~xml.files[i].format.present
  \/ ~xml.type.present
  \/ \E i \in 1..Len(xml.languages) : ~xml.languages[i].value.present

getBook(id, xml) ==
  IF getBookThrows(xml) THEN Thrown
  ELSE Returned(
    [id |-> parseInt(id),
     title |-> IF xml.title.present
               THEN Str(fixSubtitles(xml.title.textContent)) ELSE Null,
     authors |->
       Arr(Pushed([i \in 1..Len(xml.creators) |-> getPerson(xml.creators[i])])),
     translators |->
       Arr(Pushed([i \in 1..Len(xml.translators) |-> getPerson(xml.translators[i])])),
     type |-> IF xml.type.value.present
              THEN Str(xml.type.value.textContent) ELSE Str(TEXT),
     subjects |->
       Arr(sort(Pushed([i \in 1..Len(xml.subjects) |->
                          getSubject(xml.subjects[i])]))),
     languages |->
       Arr(Pushed([i \in 1..Len(xml.languages) |-> getLanguage(xml.languages[i])])),
     formats |-> Arr(getFormats(<<>>, xml.files)),
     bookshelves |->
       Arr(Pushed([i \in 1..Len(xml.bookshelves) |-> getBookshelf(xml.bookshelves[i])])),
     copyright |-> getCopyright(xml.rights)])

(***************************************************************************)
(* mapBookToBookResponseDTO and the BookDTO constructor                    *)
(***************************************************************************)
BookDTO(gutenbergId, title, authors, translators, type, subjects, languages, formats, bookShelves, copyright) ==
  [gutenbergId |-> gutenbergId, title |-> title, authors |-> authors,
   translators |-> translators, type |-> type, subjects |-> subjects,
   languages |-> languages, formats |-> formats,
   bookShelves |-> bookShelves, copyright |-> copyright]

mapBookToBookResponseDTO(book) ==
  BookDTO(GetProp(book, "id"), GetProp(book, "title"),
          GetProp(book, "authors"), GetProp(book, "translators"),
          GetProp(book, "type"), GetProp(book, "subjects"),
          GetProp(book, "languages"), GetProp(book, "formats"),
          GetProp(book, "bookShelves"), GetProp(book, "copyright"))

(***************************************************************************)
(* The books collection (bookSchema) and findOneAndUpdate                  *)
(***************************************************************************)
\* schema paths of an author or translator subdocument; other paths of the
\* update are dropped by the schema
castPerson(person) == [name |-> person.name]

castPath(path, value) ==
  IF path \in {"authors", "translators"}
  THEN Arr([i \in 1..Len(value.v) |-> castPerson(value.v[i])])
  ELSE value

\* array paths of bookSchema default to the empty array on insert
schemaDefaults ==
  [authors |-> Arr(<<>>), translators |-> Arr(<<>>), subjects |-> Arr(<<>>),
   languages |-> Arr(<<>>), formats |-> Arr(<<>>), bookShelves |-> Arr(<<>>)]

\* the paths an update sets: undefined values are not sent
definedPaths(update) == {path \in DOMAIN update : update[path].t # "undefined"}

setPaths(doc, update) ==
  [path \in DOMAIN doc \cup definedPaths(update) |->
     IF path \in definedPaths(update)
     THEN castPath(path, update[path]) ELSE doc[path]]

\* gutenbergId is a Number path: a NaN filter value cannot be cast
filterThrows(filter) == filter.gutenbergId.t # "number"

matching(collection, filter) ==
  {doc \in collection : doc.gutenbergId = filter.gutenbergId}

\* mutant of findOneAndUpdate: the update is inserted as a new document
findOneAndUpdate_insert(collection, nextId, filter, update) ==
  [books |-> collection \cup
             {setPaths([_id |-> nextId] @@ filter @@ schemaDefaults, update)},
   nextId |-> nextId + 1]

\* findOneAndUpdate(filter, update, {upsert: true, setDefaultsOnInsert: true}):
\* the collection and the next _id afterwards
findOneAndUpdate(collection, nextId, filter, update) ==
  IF matching(collection, filter) # {}
  THEN LET found == CHOOSE doc \in matching(collection, filter) :
                      \A other \in matching(collection, filter) :
                        doc._id <= other._id
       IN [books |-> (collection \ {found}) \cup {setPaths(found, update)},
           nextId |-> nextId]
  ELSE [books |-> collection \cup
                  {setPaths([_id |-> nextId] @@ filter @@ schemaDefaults,
                            update)},
        nextId |-> nextId + 1]

(***************************************************************************)
(* Record documents of the model                                           *)
(***************************************************************************)
Person(name, birthdate, deathdate) ==
  [name |-> name, birthdate |-> birthdate, deathdate |-> deathdate]

Subject(memberOf, value) == [memberOf |-> memberOf, value |-> value]

MemberOf(resource) == [present |-> TRUE, resource |-> resource]

NoMemberOf == [present |-> FALSE, resource |-> <<>>]

Valued(value) == [value |-> value]

\* a pg:file element: its rdf:about URL and its dc:format child, if any
File(about, format) == [about |-> about, format |-> format]

\* dc:format or dc:type: the element may be absent, and so may its rdf:value
Format(value) == [present |-> TRUE, value |-> value]

NoFormat == [present |-> FALSE, value |-> NoElement]

HTML == <<"H", "T", "M", "L">>

EPUB == <<"E", "P", "U", "B">>

UrlNoImages == <<"ebooks", "1", "html", NOIMAGES>>

UrlImages == <<"ebooks", "1", "html", "images">>

Document(creators, translators, title, subjects, bookshelves, rights, files, type, languages) ==
  [wellFormed |-> TRUE, ebook |-> TRUE, creators |-> creators,
   translators |-> translators, title |-> title, subjects |-> subjects,
   bookshelves |-> bookshelves, rights |-> rights, files |-> files,
   type |-> type, languages |-> languages]

Carroll == Person(Element(<<"C", "a", "r", "r", "o", "l", "l">>),
      Element(<<"1", "8", "3", "2">>), Element(<<"1", "8", "9", "8">>))

Anonymous == Person(NoElement, NoElement, NoElement)

Zebras == Subject(MemberOf(LCSH), Element(<<"Z", "e", "b", "r", "a", "s">>))

Apples == Subject(MemberOf(LCSH), Element(<<"A", "p", "p", "l", "e", "s">>))

Ignored == Subject(MemberOf(<<"d", "c", ":", "L", "C", "C">>), Element(<<"P",
      "R">>))

English == Valued(Element(<<"e", "n">>))

Shelf == Valued(Element(<<"K", "i", "d", "s">>))

BaseDocument ==
  Document(<<Carroll>>, <<>>, Element(<<"A", "l", "i", "c", "e">>), <<Zebras,
        Ignored, Apples>>,
           <<Shelf>>, Element(PUBLIC_DOMAIN),
           <<File(UrlImages, Format(Element(HTML)))>>,
           Format(Element(TEXT)), <<English>>)

\* a file that cannot be read or parsed
Unreadable == [BaseDocument EXCEPT !.wellFormed = FALSE]

DocOne ==
  [BaseDocument EXCEPT
     !.title = Element(<<"A", "l", "i", "c", "e", "\n", "I", "n", " ", "W",
           "o", "n", "d", "e", "r", "l", "a", "n", "d">>),
     !.files = <<File(UrlNoImages, Format(Element(HTML))),
                 File(UrlImages, Format(Element(HTML))),
                 File(UrlImages, Format(Element(EPUB)))>>]

DocTwo ==
  [BaseDocument EXCEPT
     !.title = NoElement, !.creators = <<Anonymous>>, !.bookshelves = <<>>,
     !.rights = Element(COPYRIGHTED), !.type = Format(NoElement)]

DocNoRights == [BaseDocument EXCEPT !.rights = NoElement]

DocThousand == [BaseDocument EXCEPT !.title = Element(<<"T", "h", "o", "u",
      "s", "a", "n", "d">>)]

DocHalf == [BaseDocument EXCEPT !.title = Element(<<"H", "a", "l", "f">>)]

(***************************************************************************)
(* The extracted archive: directory names and the document in each         *)
(***************************************************************************)
README == <<"R", "E", "A", "D", "M", "E">>

DirNames == {<<"1">>, <<"2">>, <<"3">>, <<"1", "e", "3">>, <<".", "5">>, README}

Tree(subdirectory) ==
  IF subdirectory = <<"1">> THEN DocOne
  ELSE IF subdirectory = <<"2">> THEN DocTwo
  ELSE IF subdirectory = <<"3">> THEN DocNoRights
  ELSE IF subdirectory = <<"1", "e", "3">> THEN DocThousand
  ELSE IF subdirectory = <<".", "5">> THEN DocHalf
  ELSE Unreadable

RECURSIVE SeqsUpTo(_, _)
\* the sequences over S of length at most n
SeqsUpTo(S, n) ==
  IF n = 0 THEN {<<>>}
  ELSE SeqsUpTo(S, n - 1)
       \cup {Append(q, e) : q \in {r \in SeqsUpTo(S, n - 1) : Len(r) = n - 1},
                            e \in S}

NoDuplicates(q) == \A i, j \in 1..Len(q) : q[i] = q[j] => i = j

\* what readdirSync may list: distinct names, in any order
Listings == {q \in SeqsUpTo(DirNames, MaxDirs) : NoDuplicates(q)}

\* a document left in the collection by an earlier version of the catalog
StaleBook ==
  [_id |-> 1, gutenbergId |-> Num(1), title |-> Str(<<"O", "l", "d">>),
   authors |-> Arr(<<>>), translators |-> Arr(<<>>), type |-> Str(TEXT),
   subjects |-> Arr(<<>>), languages |-> Arr(<<>>), formats |-> Arr(<<>>),
   downloads |-> Num(5), bookShelves |-> Arr(<<Str(<<"O", "l", "d", " ", "s",
         "h", "e", "l", "f">>)>>),
   copyright |-> Bool(TRUE)]

(***************************************************************************)
(* State                                                                   *)
(***************************************************************************)
VARIABLES
  xml,            \* the record document handed to a stand-alone getBook call
  result,         \* the outcome of that call
  pc,             \* position of the run in downloadExtractUpsert
  archive,        \* the subdirectories of the archive, in listing order
  TEMP_PATH,      \* whether the temporary directory exists
  subdirectories, \* the listing taken by getSubdirectories
  index,          \* position of the for loop in subdirectories
  book,           \* the record returned by the last getBook call of the loop
  bookDTO,        \* the record handed to findOneAndUpdate
  books,          \* the books collection
  nextId,         \* the next _id the collection assigns
  run,            \* number of the current run
  exitCode,       \* -1 while the process runs, then the exit code
  calls,          \* history: subdirectories passed to getBook in this run
  upserts,        \* history: findOneAndUpdate calls issued in this run
  done,           \* history: stages of this run that completed
  failedAt,       \* history: what the loop had done when the run failed
  cleanUps,       \* history: number of cleanUp calls of this run
  removal,        \* history: "none", or how the removal of TEMP_PATH ended
  firstRun        \* history: exit code and collection at the end of run 1

parserVars == <<xml, result>>

runVars == <<pc, archive, TEMP_PATH, subdirectories, index, book, bookDTO,
             books, nextId, run, exitCode, calls, upserts, done, failedAt,
             cleanUps, removal, firstRun>>

vars == <<xml, result, pc, archive, TEMP_PATH, subdirectories, index, book,
          bookDTO, books, nextId, run, exitCode, calls, upserts, done, failedAt,
          cleanUps, removal, firstRun>>

NoBook == [id |-> Undefined]

NoFailure == [failed |-> FALSE, calls |-> <<>>, upserts |-> <<>>, books |-> {}]

NoRun == [exitCode |-> -1, books |-> {}]

\* the run as it is before program.action starts
RunStart ==
  /\ pc = "start"
  /\ subdirectories = <<>>
  /\ index = 1
  /\ book = NoBook
  /\ bookDTO = mapBookToBookResponseDTO(NoBook)
  /\ exitCode = -1
  /\ calls = <<>>
  /\ upserts = <<>>
  /\ done = {}
  /\ failedAt = NoFailure
  /\ cleanUps = 0
  /\ removal = "none"

NoParserCall == xml = BaseDocument /\ result = Pending

NoProcess ==
  /\ RunStart
  /\ archive = <<>>
  /\ TEMP_PATH = FALSE
  /\ books = {}
  /\ nextId = 1
  /\ run = 0
  /\ firstRun = NoRun

(***************************************************************************)
(* Stand-alone calls of getBook on one record document                     *)
(***************************************************************************)
TitleChars == {"A", "B", " ", "\n", "\r"}

Titles == SeqsUpTo(TitleChars, MaxTitleLen)

TitleDocuments == {[BaseDocument EXCEPT !.title = Element(t)] : t \in Titles}

RECURSIVE Concatenations(_, _)
\* the texts made of at most n pieces
Concatenations(pieces, n) ==
  IF n = 0 THEN {<<>>}
  ELSE Concatenations(pieces, n - 1)
       \cup {q \o e : q \in Concatenations(pieces, n - 1), e \in pieces}

RightsPieces ==
  {PUBLIC_DOMAIN, COPYRIGHTED, <<"P", "u", "b", "l", "i", "c", " ", "d", "o",
        "m", "a", "i", "n", " ", "i", "n", " ", "t", "h", "e", " ", "U", "S",
        "A">>, <<"c", "o", "p", "y", "r", "i", "g", "h", "t", "e", "d", ".">>,
   <<"U", "n", "k", "n", "o", "w", "n", " ", "r", "i", "g", "h", "t", "s",
         ".">>, <<" ">>, <<"C">>, <<"N", "o", "t", " ">>}

RightsTexts == Concatenations(RightsPieces, MaxRightsPieces)

RightsDocuments ==
  {[BaseDocument EXCEPT !.rights = Element(t)] : t \in RightsTexts}

FileElements ==
  {File(about, Format(value)) :
     about \in {UrlNoImages, UrlImages},
     value \in {Element(HTML), Element(EPUB), NoElement}}

FilesDocuments ==
  {[BaseDocument EXCEPT !.files = f] : f \in SeqsUpTo(FileElements, MaxFiles)}

\* documents in which each element is present or absent
OptionalDocuments ==
  {Document(creators, translators, title, subjects, bookshelves, rights, files,
            type, languages) :
     creators \in {<<>>, <<Carroll>>, <<Anonymous>>},
     translators \in {<<>>, <<Carroll>>},
     title \in {NoElement, Element(<<"A", "l", "i", "c", "e">>)},
     subjects \in {<<>>, <<Zebras>>, <<Subject(NoMemberOf, NoElement)>>,
                   <<Zebras, Subject(MemberOf(LCSH), NoElement), Apples>>},
     bookshelves \in {<<>>, <<Shelf>>, <<Valued(NoElement)>>},
     rights \in {NoElement, Element(COPYRIGHTED)},
     files \in {<<>>, <<File(UrlImages, Format(Element(HTML)))>>,
                <<File(UrlImages, Format(NoElement))>>,
                <<File(UrlImages, NoFormat)>>},
     type \in {NoFormat, Format(NoElement), Format(Element(<<"S", "o", "u",
           "n", "d">>))},
     languages \in {<<>>, <<English>>, <<Valued(NoElement)>>}}

InitTitle == xml \in TitleDocuments /\ result = Pending /\ NoProcess

InitRights == xml \in RightsDocuments /\ result = Pending /\ NoProcess

InitFiles == xml \in FilesDocuments /\ result = Pending /\ NoProcess

InitOptional == xml \in OptionalDocuments /\ result = Pending /\ NoProcess

\* getBook(id, xmlFilePath) on the document xml
ParseRecord ==
  /\ result = Pending
  /\ result' = getBook(<<"1">>, xml)
  /\ UNCHANGED <<removal, xml, pc, archive, TEMP_PATH, subdirectories, index,
                 book, bookDTO, books, nextId, run, exitCode, calls, upserts,
                 done, failedAt, cleanUps, firstRun>>

ParserNext == ParseRecord

SpecTitle == InitTitle /\ [][ParserNext]_vars

SpecRights == InitRights /\ [][ParserNext]_vars

SpecFiles == InitFiles /\ [][ParserNext]_vars

SpecOptional == InitOptional /\ [][ParserNext]_vars

(***************************************************************************)
(* The run: program.action, downloadExtractUpsert, cleanUp                 *)
(***************************************************************************)
\* a new process: run 1 on any listing, with the collection empty or
\* holding a document of an earlier catalog
Init ==
  /\ NoParserCall
  /\ RunStart
  /\ archive \in Listings
  /\ TEMP_PATH \in BOOLEAN
  /\ books \in {{}, {StaleBook}}
  /\ nextId = 2
  /\ run = 1
  /\ firstRun = NoRun

\* mutant of isNumericName: every subdirectory is processed
isNumericName_all(subdirectory) == TRUE

\* the test of the loop body: !isNaN(Number(subdirectory))
isNumericName(subdirectory) == ~isNaN(Number(subdirectory))

\* mutant of cleanUp: a failed removal is logged and the process goes on
cleanUp_swallow(exists, rmThrows) ==
  [TEMP_PATH |-> exists /\ rmThrows, exit |-> -1]

\* cleanUp(): removes TEMP_PATH if it exists; a failed removal exits with 1.
\* Gives whether TEMP_PATH exists afterwards and the exit code, -1 if the
\* process goes on.
cleanUp(exists, rmThrows) ==
  IF exists /\ rmThrows THEN [TEMP_PATH |-> TRUE, exit |-> 1]
  ELSE [TEMP_PATH |-> FALSE, exit |-> -1]

\* mutant of Throw: the error of a record is swallowed and the loop goes on
Throw_continue ==
  /\ pc' = "loop"
  /\ index' = index + 1
  /\ failedAt' = [failed |-> TRUE, calls |-> calls', upserts |-> upserts',
                  books |-> books']

\* an awaited step rejects or a statement throws inside the try block of
\* downloadExtractUpsert: control goes to its catch block
Throw ==
  /\ pc' = "catch"
  /\ index' = index
  /\ failedAt' = [failed |-> TRUE, calls |-> calls', upserts |-> upserts',
                  books |-> books']

\* downloadExtractUpsert up to the awaited download request
Start ==
  /\ pc = "start"
  /\ UNCHANGED <<removal, xml, result, archive, subdirectories, book, bookDTO,
                 books, nextId, run, exitCode, calls, upserts, done, cleanUps,
                 firstRun>>
  /\ \E ok \in BOOLEAN :
       IF ok
       THEN /\ TEMP_PATH' = TRUE
            /\ pc' = "download"
            /\ UNCHANGED <<index, failedAt>>
       ELSE /\ Throw
            /\ UNCHANGED TEMP_PATH


\* the awaited download settles: the catalog is written to DOWNLOAD_PATH, or
\* the request or the writer fails
Download ==
  /\ pc = "download"
  /\ UNCHANGED <<removal, xml, result, archive, TEMP_PATH, subdirectories,
                 book, bookDTO, books, nextId, run, exitCode, calls, upserts,
                 cleanUps, firstRun>>
  /\ \E ok \in BOOLEAN :
       IF ok
       THEN /\ pc' = "extract"
            /\ done' = done \cup {"download"}
            /\ UNCHANGED <<index, failedAt>>
       ELSE /\ Throw
            /\ UNCHANGED done


\* the archive is extracted and listed and the connection is requested, or
\* the extraction fails
Extract ==
  /\ pc = "extract"
  /\ UNCHANGED <<removal, xml, result, archive, TEMP_PATH, book, bookDTO,
                 books, nextId, run, exitCode, calls, upserts, cleanUps,
                 firstRun>>
  /\ \E ok \in BOOLEAN :
       IF ok
       THEN /\ subdirectories' = archive
            /\ pc' = "connect"
            /\ done' = done \cup {"extract"}
            /\ UNCHANGED <<index, failedAt>>
       ELSE /\ Throw
            /\ UNCHANGED <<subdirectories, done>>


\* db.mongoose.connect resolves or rejects
Connect ==
  /\ pc = "connect"
  /\ UNCHANGED <<removal, xml, result, archive, TEMP_PATH, subdirectories,
                 book, bookDTO, books, nextId, run, exitCode, calls, upserts,
                 done, cleanUps, firstRun>>
  /\ \E ok \in BOOLEAN :
       IF ok
       THEN /\ pc' = "loop"
            /\ index' = 1
            /\ UNCHANGED failedAt
       ELSE Throw


\* one pass of the loop body up to its await of findOneAndUpdate: a name that
\* is not numeric is skipped; otherwise the record is parsed and mapped and
\* the upsert is issued
Iterate ==
  /\ pc = "loop"
  /\ index <= Len(subdirectories)
  /\ UNCHANGED <<removal, xml, result, archive, TEMP_PATH, subdirectories,
                 books, nextId, run, exitCode, done, cleanUps, firstRun>>
  /\ \E subdirectory \in {subdirectories[index]} :
       IF ~isNumericName(subdirectory)
       THEN /\ index' = index + 1
            /\ UNCHANGED <<pc, book, bookDTO, calls, upserts, failedAt>>
       ELSE \E parsed \in {getBook(subdirectory, Tree(subdirectory))} :
              /\ calls' = Append(calls, subdirectory)
              /\ IF parsed.outcome = "throw"
                 THEN /\ UNCHANGED <<book, bookDTO, upserts>>
                      /\ Throw
                 ELSE /\ book' = parsed.value
                      /\ bookDTO' = mapBookToBookResponseDTO(parsed.value)
                      /\ upserts' =
                           Append(upserts,
                                  [subdirectory |-> subdirectory,
                                   filter |-> [gutenbergId |->
                                                 bookDTO'.gutenbergId]])
                      /\ pc' = "upsert"
                      /\ UNCHANGED <<index, failedAt>>

\* findOneAndUpdate resolves with the document written, or rejects (the
\* filter cannot be cast, or the store fails) with nothing written
Upsert ==
  /\ pc = "upsert"
  /\ UNCHANGED <<removal, xml, result, archive, TEMP_PATH, subdirectories,
                 book, bookDTO, run, exitCode, calls, upserts, done, cleanUps,
                 firstRun>>
  /\ LET filter == [gutenbergId |-> bookDTO.gutenbergId]
     IN \E ok \in BOOLEAN :
          IF ok /\ ~filterThrows(filter)
          THEN /\ books' = findOneAndUpdate(books, nextId, filter,
                bookDTO).books
               /\ nextId' = findOneAndUpdate(books, nextId, filter,
                     bookDTO).nextId
               /\ pc' = "loop"
               /\ index' = index + 1
               /\ UNCHANGED failedAt
          ELSE /\ UNCHANGED <<books, nextId>>
               /\ Throw


\* the loop is over: the connection close is requested
EndLoop ==
  /\ pc = "loop"
  /\ index > Len(subdirectories)
  /\ UNCHANGED <<removal, xml, result, archive, TEMP_PATH, subdirectories,
                 index, book, bookDTO, books, nextId, run, exitCode, calls,
                 upserts, failedAt, cleanUps, firstRun>>
  /\ pc' = "close"
  /\ done' = done \cup {"records"}


\* db.mongoose.connection.close resolves or rejects
Close ==
  /\ pc = "close"
  /\ UNCHANGED <<removal, xml, result, archive, TEMP_PATH, subdirectories,
                 book, bookDTO, books, nextId, run, exitCode, calls, upserts,
                 cleanUps, firstRun>>
  /\ \E ok \in BOOLEAN :
       IF ok
       THEN /\ pc' = "finish"
            /\ done' = done \cup {"close"}
            /\ UNCHANGED <<index, failedAt>>
       ELSE /\ Throw
            /\ UNCHANGED done

\* the process exits with this code
Exit(code) ==
  /\ pc' = "exited"
  /\ exitCode' = code
  /\ firstRun' = IF run = 1 THEN [exitCode |-> code, books |-> books]
                 ELSE firstRun

\* the catch block of downloadExtractUpsert: cleanUp, rethrow; then the catch
\* block of program.action: cleanUp again, exit(1)
Catch ==
  /\ pc = "catch"
  /\ \E rmThrows \in BOOLEAN :
       LET first == cleanUp(TEMP_PATH, rmThrows)
           second == cleanUp(first.TEMP_PATH, rmThrows)
       IN IF first.exit # -1
          THEN /\ TEMP_PATH' = first.TEMP_PATH
               /\ removal' = "failed"
               /\ cleanUps' = cleanUps + 1
               /\ Exit(first.exit)
          ELSE /\ TEMP_PATH' = second.TEMP_PATH
               /\ removal' = IF second.TEMP_PATH THEN "failed"
                             ELSE IF TEMP_PATH THEN "removed" ELSE removal
               /\ cleanUps' = cleanUps + 2
               /\ Exit(IF second.exit # -1 THEN second.exit ELSE 1)
  /\ UNCHANGED <<xml, result, archive, subdirectories, index, book, bookDTO,
                 books, nextId, run, calls, upserts, done, failedAt>>

\* program.action after downloadExtractUpsert returned: cleanUp, exit(0)
Finish ==
  /\ pc = "finish"
  /\ \E rmThrows \in BOOLEAN :
       LET last == cleanUp(TEMP_PATH, rmThrows)
       IN /\ TEMP_PATH' = last.TEMP_PATH
          /\ cleanUps' = cleanUps + 1
          /\ removal' = IF last.TEMP_PATH THEN "failed"
                        ELSE IF TEMP_PATH THEN "removed" ELSE removal
          /\ Exit(IF last.exit # -1 THEN last.exit ELSE 0)
  /\ UNCHANGED <<xml, result, archive, subdirectories, index, book, bookDTO,
                 books, nextId, run, calls, upserts, done, failedAt>>

\* the program is started again on the same archive and collection
Rerun ==
  /\ pc = "exited"
  /\ run < MaxRuns
  /\ run' = run + 1
  /\ pc' = "start"
  /\ subdirectories' = <<>>
  /\ index' = 1
  /\ book' = NoBook
  /\ bookDTO' = mapBookToBookResponseDTO(NoBook)
  /\ exitCode' = -1
  /\ calls' = <<>>
  /\ upserts' = <<>>
  /\ done' = {}
  /\ failedAt' = NoFailure
  /\ cleanUps' = 0
  /\ removal' = "none"
  /\ UNCHANGED <<xml, result, archive, TEMP_PATH, books, nextId, firstRun>>

Next ==
  \/ Start \/ Download \/ Extract \/ Connect \/ Iterate \/ Upsert
  \/ EndLoop \/ Close \/ Catch \/ Finish \/ Rerun

Spec == Init /\ [][Next]_vars

\* listings on which the loop skips, parses, upserts and fails
FairListings ==
  {q \in Listings : Len(q) <= 1}
  \cup {<<README, <<"1">>>>, <<<<"1">>, <<"2">>>>, <<<<"1">>, <<"3">>>>,
        <<<<"2">>, <<".", "5">>>>, <<<<"1", "e", "3">>, <<"1">>>>}

FairInit ==
  /\ NoParserCall
  /\ RunStart
  /\ archive \in FairListings
  /\ TEMP_PATH \in BOOLEAN
  /\ books = {StaleBook}
  /\ nextId = 2
  /\ run = 1
  /\ firstRun = NoRun

\* every awaited step settles and the event loop runs its continuation
FairSpec == FairInit /\ [][Next]_vars /\ WF_vars(Next)

(***************************************************************************)
(* Properties of the record parser                                         *)
(***************************************************************************)
RECURSIVE TwoTier(_, _, _)
\* the title with its first line-break run replaced by ": " and every later
\* run by "; "
TwoTier(s, i, first) ==
  IF i > Len(s) THEN <<>>
  ELSE IF LINE_BREAK_PATTERN(s, i) # 0
       THEN (IF first THEN <<":", " ">> ELSE <<";", " ">>)
            \o TwoTier(s, LINE_BREAK_PATTERN(s, i), FALSE)
       ELSE <<s[i]>> \o TwoTier(s, i + 1, first)

RECURSIVE Runs(_, _)
\* the matches of LINE_BREAK_PATTERN in s from i on, as <<start, end>> with
\* end the index after the match
Runs(s, i) ==
  IF i > Len(s) THEN <<>>
  ELSE IF LINE_BREAK_PATTERN(s, i) # 0
       THEN <<<<i, LINE_BREAK_PATTERN(s, i)>>>>
            \o Runs(s, LINE_BREAK_PATTERN(s, i))
       ELSE Runs(s, i + 1)

\* at least two runs, each separated from the next by text
TwoRunsSeparatedByText(s) ==
  /\ Len(Runs(s, 1)) >= 2
  /\ \A r \in 1..(Len(Runs(s, 1)) - 1) : Runs(s, 1)[r + 1][1] > Runs(s, 1)[r][2]

\* C1: for a title with at least two line-break runs separated by text, the
\* title getBook returns has the first run replaced by ": " and every later
\* run by "; ".
C1_TwoTierSeparators ==
  (result.outcome = "return" /\ TwoRunsSeparatedByText(xml.title.textContent))
    => result.value.title = Str(TwoTier(xml.title.textContent, 1, TRUE))

HasContentType(file) == file.format.present /\ file.format.value.present

ContentTypeOf(file) == file.format.value.textContent

Entry(file) == [contentType |-> ContentTypeOf(file), url |-> file.about]

RECURSIVE Scan(_, _)
\* the entries kept after the first k files, by the keep rule as stated:
\* file k is appended exactly when no kept entry has its content type or
\* some kept entry of its content type has a noimages URL
Scan(files, k) ==
  IF k = 0 THEN <<>>
  ELSE LET kept == Scan(files, k - 1)
           same == {i \in 1..Len(kept) :
                      kept[i].contentType = ContentTypeOf(files[k])}
       IN IF /\ HasContentType(files[k])
             /\ \/ same = {}
                \/ \E i \in same : includes(kept[i].url, NOIMAGES)
          THEN Append(kept, Entry(files[k]))
          ELSE kept

\* the first file with the content type of file k
FirstOfType(files, k) ==
  CHOOSE j \in 1..k :
    /\ HasContentType(files[j])
    /\ ContentTypeOf(files[j]) = ContentTypeOf(files[k])
    /\ \A h \in 1..(j - 1) :
         HasContentType(files[h]) =>
           ContentTypeOf(files[h]) # ContentTypeOf(files[k])

NumberKept(files) ==
  Cardinality({k \in 1..Len(files) :
                 /\ HasContentType(files[k])
                 /\ \/ FirstOfType(files, k) = k
                    \/ includes(files[FirstOfType(files, k)].about, NOIMAGES)})

\* C2: formats is the scan of the files in document order under the keep
\* rule; so a file is kept exactly when it is the first of its content type
\* or the first of its content type is a noimages variant: after a first
\* entry that is not noimages every later file of the type is dropped, and
\* after a first noimages entry every later file of the type is kept.
C2_FormatsKeepRule ==
  result.outcome = "return" =>
    /\ result.value.formats = Arr(Scan(xml.files, Len(xml.files)))
    /\ Len(result.value.formats.v) = NumberKept(xml.files)

C2_Witness ==
  /\ result.outcome = "return"
  /\ xml.files = <<File(UrlNoImages, Format(Element(HTML))),
                   File(UrlImages, Format(Element(HTML))),
                   File(UrlImages, Format(Element(HTML)))>>
  /\ Len(result.value.formats.v) = 3

BeginsWith(text, prefix) ==
  /\ Len(text) >= Len(prefix)
  /\ \A i \in 1..Len(prefix) : text[i] = prefix[i]

\* C5: copyright is false when the rights text begins with "Public domain in
\* the USA.", true when it begins with "Copyrighted.", and null otherwise,
\* also when one of the phrases occurs later in the text.
C5_CopyrightByPrefix ==
  result.outcome = "return" =>
    /\ result.value.copyright \in {Bool(FALSE), Bool(TRUE), Null}
    /\ result.value.copyright = Bool(FALSE)
         <=> BeginsWith(xml.rights.textContent, PUBLIC_DOMAIN)
    /\ result.value.copyright = Bool(TRUE)
         <=> BeginsWith(xml.rights.textContent, COPYRIGHTED)

C5_Witness ==
  /\ result.outcome = "return"
  /\ xml.rights.textContent = <<"N", "o", "t", " ">> \o COPYRIGHTED
  /\ result.value.copyright = Null

\* C4: getBook throws exactly when the rights element is absent, and a
\* record without a classification value has type "Text".
C4_ThrowsOnlyWithoutRights ==
  result # Pending =>
    /\ result.outcome = "throw" <=> ~xml.rights.present
    /\ (result.outcome = "return" /\ ~xml.type.value.present)
         => result.value.type = Str(TEXT)

(***************************************************************************)
(* Properties of the mapper and of the run                                 *)
(***************************************************************************)
\* C3: the record handed to the store carries every field of the record
\* getBook returned, the bookshelf labels included, the identifier as
\* gutenbergId, and no downloads field.
C3_MapperPreservesRecord ==
  pc = "upsert" =>
    /\ bookDTO.gutenbergId = book.id
    /\ \A field \in {"title", "authors", "translators", "type", "subjects",
                     "languages", "formats", "copyright"} :
         bookDTO[field] = book[field]
    /\ bookDTO.bookShelves = book.bookshelves
    /\ "downloads" \notin DOMAIN bookDTO

NamesANumber(subdirectory) == Number(subdirectory).k # "NaN"

SkipsQuietly ==
  (/\ pc = "loop"
   /\ index <= Len(subdirectories)
   /\ ~NamesANumber(subdirectories[index]))
    => /\ pc' = "loop"
       /\ index' = index + 1
       /\ calls' = calls
       /\ upserts' = upserts
       /\ books' = books
       /\ failedAt' = failedAt

\* C6: getBook and the upsert are invoked only for subdirectories whose name
\* parses as a number, never for README; skipping a name raises no error and
\* the loop goes on with the next subdirectory.
C6_NonNumericSkipped ==
  /\ [](/\ \A i \in 1..Len(calls) :
             NamesANumber(calls[i]) /\ calls[i] # README
        /\ \A i \in 1..Len(upserts) :
             NamesANumber(upserts[i].subdirectory)
             /\ upserts[i].subdirectory # README)
  /\ [][SkipsQuietly]_vars

C6_Witness ==
  /\ pc = "upsert"
  /\ index = 3
  /\ subdirectories[2] = README
  /\ calls = <<subdirectories[1], subdirectories[3]>>

RECURSIVE Numeric(_)
\* the names of a listing that parse as a number, in listing order
Numeric(names) ==
  IF Len(names) = 0 THEN <<>>
  ELSE (IF NamesANumber(names[1]) THEN <<names[1]>> ELSE <<>>)
       \o Numeric(Tail(names))

InListingOrder ==
  /\ index <= Len(subdirectories) + 1
  /\ calls \in {Numeric(SubSeq(subdirectories, 1, index - 1)),
                Numeric(SubSeq(subdirectories, 1,
                               IF index <= Len(subdirectories)
                               THEN index ELSE index - 1))}
  /\ Len(upserts) \in {Len(calls) - 1, Len(calls)}
  /\ \A i \in 1..Len(upserts) : upserts[i].subdirectory = calls[i]
  /\ pc = "upsert" => Len(upserts) = Len(calls)
  /\ (pc = "exited" /\ failedAt.failed) => exitCode # 0

NothingAfterFailure ==
  (failedAt.failed /\ run' = run)
    => /\ calls' = calls
       /\ upserts' = upserts
       /\ books' = books
       /\ failedAt' = failedAt
       /\ pc' \in {"catch", "exited"}

\* C7: records are parsed and upserted one at a time in listing order; once
\* a step of the run fails no further subdirectory is parsed or upserted,
\* the documents already written stay as they are, and the run exits with a
\* non-zero code.
C7_FailFast == []InListingOrder /\ [][NothingAfterFailure]_vars

C7_Witness ==
  /\ pc = "exited"
  /\ failedAt.failed
  /\ Len(calls) = 2
  /\ Len(upserts) = 1
  /\ index = 2
  /\ Len(subdirectories) = 3
  /\ NamesANumber(subdirectories[3])
  /\ \E doc \in books : doc.gutenbergId = upserts[1].filter.gutenbergId

AllStages == {"download", "extract", "records", "close"}

ExitCodeTellsSuccess ==
  pc = "exited" =>
    /\ exitCode \in {0, 1}
    /\ exitCode = 0 <=> (done = AllStages /\ removal # "failed")
    /\ cleanUps >= 1
    /\ TEMP_PATH => removal = "failed"

\* C8: every run ends with an exit code; the code is 0 exactly when the
\* download, the extraction, every record, the connection close and the
\* cleanup succeeded; cleanUp is called before every exit, and the temporary
\* directory is gone at exit unless its removal failed.
C8_ExitCode ==
  /\ []ExitCodeTellsSuccess
  /\ (pc # "exited") ~> (pc = "exited")

C8_Witness ==
  /\ pc = "exited"
  /\ exitCode = 1
  /\ done = AllStages
  /\ removal = "failed"
  /\ TEMP_PATH

OneDocumentPerId ==
  \A a, b \in books : a.gutenbergId = b.gutenbergId => a = b

\* C9: a second run after a successful first run on the same archive, once
\* it has succeeded too, leaves the collection as the first run left it,
\* inserts no document, and the collection holds one document per
\* gutenbergId.
C9_IdempotentUpsert ==
  /\ [](/\ OneDocumentPerId
        /\ (run = 2 /\ pc = "exited" /\ exitCode = 0 /\ firstRun.exitCode = 0)
             => books = firstRun.books)
  /\ [][(run = 2 /\ firstRun.exitCode = 0) => nextId' = nextId]_vars

C9_Witness ==
  /\ run = 2
  /\ pc = "exited"
  /\ exitCode = 0
  /\ firstRun.exitCode = 0
  /\ Len(upserts) = 2
  /\ Cardinality(books) = 2
  /\ books = firstRun.books

\* the integer n equals the number a name denotes
EqualsNumber(n, number) ==
  /\ number.k = "finite"
  /\ LET signed == IF number.neg THEN 0 - number.mant ELSE number.mant
     IN IF number.exp >= 0
        THEN n = signed * Pow10(number.exp)
        ELSE n * Pow10(0 - number.exp) = signed

\* C10: the identifier every upsert is keyed by is an integer equal to the
\* number its subdirectory name denotes, so upserts of subdirectories with
\* different names have different identifiers.
C10_IdMatchesDirectoryName ==
  /\ \A i \in 1..Len(upserts) :
       /\ upserts[i].filter.gutenbergId.t = "number"
       /\ EqualsNumber(upserts[i].filter.gutenbergId.v,
                       Number(upserts[i].subdirectory))
  /\ \A i, j \in 1..Len(upserts) :
       upserts[i].subdirectory # upserts[j].subdirectory
         => upserts[i].filter.gutenbergId # upserts[j].filter.gutenbergId

====
